---- MODULE Spec2Model ----
(***************************************************************************)
(* State-machine model of src/shaders/mod.rs: the Shader sum type and its  *)
(* three operations is_opaque, push_stages and transform.                  *)
(*                                                                         *)
(* Color, Transform, LinearGradient, RadialGradient, Pattern and the       *)
(* pipeline builder live in other modules of the crate; they are modelled  *)
(* at their interface.  A Transform is its 2x2 linear part                 *)
(* <<sx, kx, ky, sy>> over the integers -Lim..Lim; a composition whose     *)
(* result leaves that range (the analogue of a non-finite float) or has    *)
(* determinant zero fails.  A Color is its alpha channel, quantised to     *)
(* 0..AlphaMax.                                                            *)
(***************************************************************************)
EXTENDS Integers, Sequences, FiniteSets

VARIABLES
    shader,     \* the Shader value owned by the paint
    shader0,    \* history: the Shader as constructed
    log,        \* history: the deltas handed to transform(), in call order
    last,       \* history: the last completed call, its inputs and its result
    pc,         \* per compilation: "idle", "compiling" or "done"
    k,          \* per compilation: number of stage pushes performed so far
    rec,        \* per compilation: the StageRec (ctx_storage, pipeline)
    pre,        \* history: the StageRec as handed to push_stages
    snap,       \* history: the Shader as it was when push_stages was entered
    ret         \* per compilation: the value push_stages returned

vars == <<shader, shader0, log, last, pc, k, rec, pre, snap, ret>>

----------------------------------------------------------------------------
(* Bounds of the model *)

MaxStops == 2
MaxCalls == 3
Lim == 2
AlphaMax == 2

Threads == {"t1", "t2"}

----------------------------------------------------------------------------
(* Color *)

Alpha == 0..AlphaMax
Colors == [a : Alpha]

Color_is_opaque(c) == c.a = AlphaMax

----------------------------------------------------------------------------
(* Transform *)

Identity == <<1, 0, 0, 1>>
ShearX == <<1, 1, 0, 1>>
Rot90 == <<0, -1, 1, 0>>
Scale2 == <<2, 0, 0, 1>>
Collapse == <<1, 0, 0, 0>>

\* a * b as matrices: the map that applies b first and a second
MatMul(a, b) ==
    << a[1] * b[1] + a[2] * b[3], a[1] * b[2] + a[2] * b[4],
       a[3] * b[1] + a[4] * b[3], a[3] * b[2] + a[4] * b[4] >>

Det(m) == m[1] * m[4] - m[2] * m[3]

IsFinite(m) == \A i \in 1..4 : m[i] >= -Lim /\ m[i] <= Lim

NoTransform == [some |-> FALSE, val |-> Identity]

\* Option<Transform>: None for a non-finite or non-invertible matrix
Transform_from_row(m) ==
    IF IsFinite(m) /\ Det(m) # 0 THEN [some |-> TRUE, val |-> m] ELSE NoTransform

Transform_pre_concat(self, other) == Transform_from_row(MatMul(self, other))

Transform_post_concat(self, other) == Transform_from_row(MatMul(other, self))

InitTransforms == {Identity, ShearX}
Deltas == {ShearX, Rot90, Scale2, Collapse}

----------------------------------------------------------------------------
(* SpreadMode, FilterQuality, the payloads and the Shader values *)

SpreadMode == {"Pad", "Reflect", "Repeat"}
FilterQuality == {"Nearest", "Bilinear", "Bicubic"}

StopAlphas == {AlphaMax - 1, AlphaMax}
StopLists == UNION {[1..n -> [a : StopAlphas]] : n \in 0..MaxStops}
Images == [w : 0..1, h : 0..1]

SolidColors == [kind : {"SolidColor"}, color : Colors]
LinearGradients ==
    [kind : {"LinearGradient"}, transform : InitTransforms,
     mode : SpreadMode, stops : StopLists]
RadialGradients ==
    [kind : {"RadialGradient"}, transform : InitTransforms,
     mode : SpreadMode, stops : StopLists, radius : 0..1]
Patterns ==
    [kind : {"Pattern"}, transform : InitTransforms,
     quality : FilterQuality, image : Images]

Shaders == SolidColors \cup LinearGradients \cup RadialGradients \cup Patterns

IsGeometric(s) == s.kind \in {"LinearGradient", "RadialGradient", "Pattern"}

AllStopsOpaque(stops) == \A i \in 1..Len(stops) : Color_is_opaque(stops[i])

----------------------------------------------------------------------------
(* StageRec, ContextStorage, RasterPipelineBuilder *)

EmptyRec == [ctx_storage |-> <<>>, pipeline |-> <<>>]
UsedRec == [ctx_storage |-> <<Identity>>, pipeline |-> <<"Prior">>]
PreRecs == {EmptyRec, UsedRec}

\* one push of a compiler: a stage, and the contexts it allocates (none or one)
Push(r, p) ==
    [ctx_storage |-> r.ctx_storage \o p.ctx, pipeline |-> Append(r.pipeline, p.stage)]

RECURSIVE ApplyPushes(_, _)
ApplyPushes(r, ps) ==
    IF ps = <<>> THEN r ELSE ApplyPushes(Push(r, Head(ps)), Tail(ps))

\* every call writes through the storage and builder its own StageRec borrows
StageRec_shared(t) == "t1"

StageRec(t) == t

----------------------------------------------------------------------------
(* The variants' own opacity queries and stage compilers *)

LinearGradient_is_opaque(g) == Len(g.stops) > 0 /\ AllStopsOpaque(g.stops)

StopCtx(stops) == [i \in 1..Len(stops) |-> stops[i].a]

TileStage(mode) ==
    CASE mode = "Pad" -> <<>>
      [] mode = "Reflect" -> << [stage |-> "ReflectX1", ctx |-> <<>>] >>
      [] mode = "Repeat" -> << [stage |-> "RepeatX1", ctx |-> <<>>] >>

Gradient_push_stages(g, post) ==
    << [stage |-> "SeedShader", ctx |-> <<>>],
       [stage |-> "Transform", ctx |-> <<g.transform>>] >>
    \o TileStage(g.mode) \o post
    \o << [stage |-> "Gradient", ctx |-> <<StopCtx(g.stops)>>] >>
    \o (IF AllStopsOpaque(g.stops) THEN <<>>
        ELSE << [stage |-> "Premul", ctx |-> <<>>] >>)

LinearGradient_push_stages(g) ==
    IF Len(g.stops) = 0
    THEN [ok |-> FALSE, pushes |-> <<>>]
    ELSE [ok |-> TRUE, pushes |-> Gradient_push_stages(g, <<>>)]

RadialGradient_push_stages(g) ==
    IF Len(g.stops) = 0 \/ g.radius = 0
    THEN [ok |-> FALSE, pushes |-> <<>>]
    ELSE [ok |-> TRUE,
          pushes |-> Gradient_push_stages(g, << [stage |-> "XYToRadius", ctx |-> <<>>] >>)]

\* Option<()>: some is FALSE when the source has no area
Pattern_push_stages(p) ==
    IF p.image.w * p.image.h = 0
    THEN [some |-> FALSE, pushes |-> <<>>]
    ELSE [some |-> TRUE,
          pushes |-> << [stage |-> "SeedShader", ctx |-> <<>>],
                        [stage |-> "Transform", ctx |-> <<p.transform>>],
                        [stage |-> p.quality, ctx |-> << <<p.image.w, p.image.h>> >>] >>]

----------------------------------------------------------------------------
(* Shader::is_opaque *)

Shader_is_opaque_radial_delegates(s) ==
    CASE s.kind = "SolidColor" -> Color_is_opaque(s.color)
      [] s.kind = "LinearGradient" -> LinearGradient_is_opaque(s)
      [] s.kind = "RadialGradient" -> LinearGradient_is_opaque(s)
      [] s.kind = "Pattern" -> FALSE

Shader_is_opaque_linear_false(s) ==
    CASE s.kind = "SolidColor" -> Color_is_opaque(s.color)
      [] s.kind = "LinearGradient" -> FALSE
      [] s.kind = "RadialGradient" -> FALSE
      [] s.kind = "Pattern" -> FALSE

Shader_is_opaque_solid_true(s) ==
    CASE s.kind = "SolidColor" -> TRUE
      [] s.kind = "LinearGradient" -> LinearGradient_is_opaque(s)
      [] s.kind = "RadialGradient" -> FALSE
      [] s.kind = "Pattern" -> FALSE

Shader_is_opaque(s) ==
    CASE s.kind = "SolidColor" -> Color_is_opaque(s.color)
      [] s.kind = "LinearGradient" -> LinearGradient_is_opaque(s)
      [] s.kind = "RadialGradient" -> FALSE
      [] s.kind = "Pattern" -> FALSE

----------------------------------------------------------------------------
(* Shader::push_stages: the result, the pushes the invoked compiler makes  *)
(* on the StageRec, and which compiler was invoked                         *)

FromLinear(s) ==
    LET c == LinearGradient_push_stages(s)
    IN [ret |-> c.ok, pushes |-> c.pushes, invoked |-> {"LinearGradient"}]

FromRadial(s) ==
    LET c == RadialGradient_push_stages(s)
    IN [ret |-> c.ok, pushes |-> c.pushes, invoked |-> {"RadialGradient"}]

FromPattern(s) ==
    LET c == Pattern_push_stages(s)
    IN [ret |-> c.some, pushes |-> c.pushes, invoked |-> {"Pattern"}]

Shader_push_stages_solid_pushes(s) ==
    CASE s.kind = "SolidColor" ->
            [ret |-> TRUE, pushes |-> << [stage |-> "UniformColor", ctx |-> <<>>] >>,
             invoked |-> {}]
      [] s.kind = "LinearGradient" -> FromLinear(s)
      [] s.kind = "RadialGradient" -> FromRadial(s)
      [] s.kind = "Pattern" -> FromPattern(s)

Shader_push_stages_radial_as_linear(s) ==
    CASE s.kind = "SolidColor" -> [ret |-> TRUE, pushes |-> <<>>, invoked |-> {}]
      [] s.kind = "LinearGradient" -> FromLinear(s)
      [] s.kind = "RadialGradient" -> FromLinear(s)
      [] s.kind = "Pattern" -> FromPattern(s)

Shader_push_stages(s) ==
    CASE s.kind = "SolidColor" -> [ret |-> TRUE, pushes |-> <<>>, invoked |-> {}]
      [] s.kind = "LinearGradient" -> FromLinear(s)
      [] s.kind = "RadialGradient" -> FromRadial(s)
      [] s.kind = "Pattern" -> FromPattern(s)

\* a whole call on its own StageRec r
RunAlone(s, r) ==
    LET c == Shader_push_stages(s)
    IN [ret |-> c.ret, rec |-> ApplyPushes(r, c.pushes), invoked |-> c.invoked]

----------------------------------------------------------------------------
(* Shader::transform *)

Shader_transform_pre_concat(s, ts) ==
    IF s.kind = "SolidColor" THEN s
    ELSE LET r == Transform_pre_concat(s.transform, ts)
         IN IF r.some THEN [s EXCEPT !.transform = r.val] ELSE s

Shader_transform_reset_on_failure(s, ts) ==
    IF s.kind = "SolidColor" THEN s
    ELSE LET r == Transform_post_concat(s.transform, ts)
         IN [s EXCEPT !.transform = r.val]

Shader_transform_solid_stores(s, ts) ==
    IF s.kind = "SolidColor"
    THEN [kind |-> "SolidColor", color |-> s.color, transform |-> ts]
    ELSE LET r == Transform_post_concat(s.transform, ts)
         IN IF r.some THEN [s EXCEPT !.transform = r.val] ELSE s

Shader_transform_radial_skipped(s, ts) ==
    IF s.kind \in {"SolidColor", "RadialGradient"} THEN s
    ELSE LET r == Transform_post_concat(s.transform, ts)
         IN IF r.some THEN [s EXCEPT !.transform = r.val] ELSE s

Shader_transform(s, ts) ==
    CASE s.kind = "SolidColor" -> s
      [] s.kind = "LinearGradient" ->
            LET r == Transform_post_concat(s.transform, ts)
            IN IF r.some THEN [s EXCEPT !.transform = r.val] ELSE s
      [] s.kind = "RadialGradient" ->
            LET r == Transform_post_concat(s.transform, ts)
            IN IF r.some THEN [s EXCEPT !.transform = r.val] ELSE s
      [] s.kind = "Pattern" ->
            LET r == Transform_post_concat(s.transform, ts)
            IN IF r.some THEN [s EXCEPT !.transform = r.val] ELSE s

----------------------------------------------------------------------------
(* The state machine *)

NoShader == [kind |-> "none"]
NoCall == [op |-> "none"]

AllIdle == \A t \in Threads : pc[t] = "idle"

Init ==
    /\ shader \in Shaders
    /\ shader0 = shader
    /\ log = <<>>
    /\ last = NoCall
    /\ pc = [t \in Threads |-> "idle"]
    /\ k = [t \in Threads |-> 0]
    /\ rec = [t \in Threads |-> EmptyRec]
    /\ pre = [t \in Threads |-> EmptyRec]
    /\ snap = [t \in Threads |-> NoShader]
    /\ ret = [t \in Threads |-> FALSE]

\* transform(&mut self, ts): exclusive access, so no compilation is in flight
Transform(ts) ==
    /\ AllIdle
    /\ Len(log) < MaxCalls
    /\ shader' = Shader_transform(shader, ts)
    /\ log' = Append(log, ts)
    /\ last' = [op |-> "transform", ts |-> ts, before |-> shader]
    /\ UNCHANGED <<shader0, pc, k, rec, pre, snap, ret>>

\* is_opaque(&self)
IsOpaque ==
    /\ last' = [op |-> "is_opaque", ret |-> Shader_is_opaque(shader), before |-> shader]
    /\ UNCHANGED <<shader, shader0, log, pc, k, rec, pre, snap, ret>>

\* push_stages(&self, rec) by a single caller, from entry to return
PushStages(r) ==
    /\ AllIdle
    /\ LET c == RunAlone(shader, r)
       IN last' = [op |-> "push_stages", before |-> shader, pre |-> r,
                   ret |-> c.ret, post |-> c.rec, invoked |-> c.invoked]
    /\ UNCHANGED <<shader, shader0, log, pc, k, rec, pre, snap, ret>>

\* push_stages(&self, rec) entered by compilation t with a fresh StageRec
Call(t, r) ==
    /\ pc[t] = "idle"
    /\ pc' = [pc EXCEPT ![t] = "compiling"]
    /\ k' = [k EXCEPT ![t] = 0]
    /\ rec' = [rec EXCEPT ![t] = r]
    /\ pre' = [pre EXCEPT ![t] = r]
    /\ snap' = [snap EXCEPT ![t] = shader]
    /\ UNCHANGED <<shader, shader0, log, last, ret>>

\* the invoked compiler's next push, or its return once all are made
Step(t) ==
    /\ pc[t] = "compiling"
    /\ LET c == Shader_push_stages(shader)
       IN IF k[t] < Len(c.pushes)
          THEN /\ rec' = [rec EXCEPT ![StageRec(t)] = Push(@, c.pushes[k[t] + 1])]
               /\ k' = [k EXCEPT ![t] = @ + 1]
               /\ UNCHANGED <<pc, ret>>
          ELSE /\ pc' = [pc EXCEPT ![t] = "done"]
               /\ ret' = [ret EXCEPT ![t] = c.ret]
               /\ UNCHANGED <<rec, k>>
    /\ UNCHANGED <<shader, shader0, log, last, pre, snap>>

\* the caller takes the result; the StageRec is discarded
Return(t) ==
    /\ pc[t] = "done"
    /\ pc' = [pc EXCEPT ![t] = "idle"]
    /\ k' = [k EXCEPT ![t] = 0]
    /\ rec' = [rec EXCEPT ![t] = EmptyRec]
    /\ pre' = [pre EXCEPT ![t] = EmptyRec]
    /\ snap' = [snap EXCEPT ![t] = NoShader]
    /\ ret' = [ret EXCEPT ![t] = FALSE]
    /\ UNCHANGED <<shader, shader0, log, last>>

Next ==
    \/ \E ts \in Deltas : Transform(ts)
    \/ IsOpaque
    \/ \E r \in PreRecs : PushStages(r)

Spec == Init /\ [][Next]_vars

NextConc ==
    \/ \E t \in Threads, r \in PreRecs : Call(t, r)
    \/ \E t \in Threads : Step(t)
    \/ \E t \in Threads : Return(t)
    \/ IsOpaque

SpecConc == Init /\ [][NextConc]_vars

----------------------------------------------------------------------------
(* Properties *)

LastIs(op) == last.op = op

\* the active variant's own compiler reports failure
CompilerFails(s) ==
    CASE s.kind = "SolidColor" -> FALSE
      [] s.kind = "LinearGradient" -> ~LinearGradient_push_stages(s).ok
      [] s.kind = "RadialGradient" -> ~RadialGradient_push_stages(s).ok
      [] s.kind = "Pattern" -> ~Pattern_push_stages(s).some

\* C1: push_stages on a SolidColor shader returns true and leaves the
\* pipeline builder and the context storage of its StageRec as they were.
C1_SolidPushesNothing ==
    (LastIs("push_stages") /\ last.before.kind = "SolidColor")
        => /\ last.ret = TRUE
           /\ last.post.pipeline = last.pre.pipeline
           /\ last.post.ctx_storage = last.pre.ctx_storage

C1_Witness ==
    /\ LastIs("push_stages")
    /\ last.before.kind = "SolidColor"
    /\ last.pre = UsedRec
    /\ last.ret = TRUE
    /\ last.post = UsedRec

\* C2: push_stages on a geometric shader invokes the active variant's
\* compiler and no other, returns exactly that compiler's outcome, and when
\* the compiler reports failure returns false with the builder unchanged.
C2_DegenerateReturnsFalse ==
    (LastIs("push_stages") /\ IsGeometric(last.before))
        => /\ last.invoked = {last.before.kind}
           /\ last.ret = ~CompilerFails(last.before)
           /\ CompilerFails(last.before)
                => (last.ret = FALSE /\ last.post = last.pre)

C2_Witness ==
    /\ LastIs("push_stages")
    /\ last.before.kind = "RadialGradient"
    /\ last.before.radius = 0
    /\ Len(last.before.stops) > 0
    /\ last.pre = UsedRec
    /\ last.ret = FALSE
    /\ last.post = UsedRec

\* C3: when existing.post_concat(ts) fails on a geometric shader,
\* transform(ts) returns normally and the shader, its transform included,
\* is exactly what it was before the call.
C3_FailedUpdateDropped ==
    (/\ LastIs("transform")
     /\ IsGeometric(last.before)
     /\ ~Transform_post_concat(last.before.transform, last.ts).some)
        => /\ shader.transform = last.before.transform
           /\ shader = last.before

C3_Witness ==
    /\ LastIs("transform")
    /\ IsGeometric(last.before)
    /\ ~Transform_post_concat(last.before.transform, last.ts).some
    /\ last.before.transform # Identity
    /\ shader.transform = last.before.transform

\* C4: when the composition succeeds on a geometric shader of any of the
\* three variants, the new transform is the existing one followed by the
\* delta (the matrix product delta * existing), and nothing else changes.
C4_DeltaAppliedAfter ==
    (/\ LastIs("transform")
     /\ IsGeometric(last.before)
     /\ Transform_post_concat(last.before.transform, last.ts).some)
        => /\ shader.transform = MatMul(last.ts, last.before.transform)
           /\ shader = [last.before EXCEPT
                          !.transform = MatMul(last.ts, last.before.transform)]

\* a successful update on a Pattern where the two orders of composition differ
C4_Witness ==
    /\ LastIs("transform")
    /\ last.before.kind = "Pattern"
    /\ Transform_post_concat(last.before.transform, last.ts).some
    /\ MatMul(last.before.transform, last.ts) # MatMul(last.ts, last.before.transform)
    /\ shader.transform = MatMul(last.ts, last.before.transform)

\* C5: is_opaque returns false for every RadialGradient and every Pattern
\* shader, whatever its payload and whatever transform updates came before.
C5_RadialPatternNeverOpaque ==
    (LastIs("is_opaque") /\ last.before.kind \in {"RadialGradient", "Pattern"})
        => last.ret = FALSE

\* a radial gradient with only opaque stops, queried after a successful update
C5_Witness ==
    /\ LastIs("is_opaque")
    /\ last.before.kind = "RadialGradient"
    /\ Len(last.before.stops) > 0
    /\ AllStopsOpaque(last.before.stops)
    /\ shader.transform # shader0.transform
    /\ last.ret = FALSE

C7_SolidOpacity ==
    (LastIs("is_opaque") /\ last.before.kind = "SolidColor")
        => /\ last.ret = (last.before.color.a = AlphaMax)
           /\ last.ret = Color_is_opaque(last.before.color)

C7_Witness ==
    /\ LastIs("is_opaque")
    /\ last.before.kind = "SolidColor"
    /\ last.before.color.a = AlphaMax - 1
    /\ last.ret = FALSE

\* C8: transform(ts) on a SolidColor shader returns normally for every
\* delta and leaves the shader equal to what it was; is_opaque and
\* push_stages answer as before.
C8_SolidTransformNoOp ==
    (LastIs("transform") /\ last.before.kind = "SolidColor")
        => /\ shader = last.before
           /\ shader.kind = "SolidColor"
           /\ shader.color = last.before.color
           /\ Shader_is_opaque(shader) = Shader_is_opaque(last.before)
           /\ \A r \in PreRecs : RunAlone(shader, r) = RunAlone(last.before, r)

\* the delta is one whose composition fails on every geometric shader
C8_Witness ==
    /\ LastIs("transform")
    /\ last.before.kind = "SolidColor"
    /\ last.ts = Collapse
    /\ ~Transform_post_concat(Identity, last.ts).some
    /\ shader = shader0

\* C9: is_opaque and push_stages leave the Shader as it was, and under every
\* interleaving of concurrent compilations of the same Shader, each with its
\* own StageRec, every call holds in its StageRec exactly what its own
\* compiler has pushed so far and ends with the result and the StageRec it
\* would have had running alone.
C9_ConcurrentCompilations ==
    /\ shader = shader0
    /\ LastIs("is_opaque") => shader = last.before
    /\ \A t \in Threads :
          /\ pc[t] # "idle" => shader = snap[t]
          /\ pc[t] = "compiling" =>
                /\ k[t] <= Len(Shader_push_stages(snap[t]).pushes)
                /\ rec[t] = ApplyPushes(pre[t],
                                SubSeq(Shader_push_stages(snap[t]).pushes, 1, k[t]))
          /\ pc[t] = "done" =>
                /\ ret[t] = RunAlone(snap[t], pre[t]).ret
                /\ rec[t] = RunAlone(snap[t], pre[t]).rec

\* one call has returned and the other is in the middle of its pushes
C9_Witness ==
    /\ pc["t1"] = "done"
    /\ ret["t1"] = TRUE
    /\ Len(rec["t1"].pipeline) > Len(pre["t1"].pipeline)
    /\ pc["t2"] = "compiling"
    /\ k["t2"] > 0
    /\ k["t2"] < Len(Shader_push_stages(shader).pushes)
    /\ pre["t1"] # pre["t2"]

\* the transform after the calls transform(ds[1]), ..., transform(ds[n])
\* starting from t: each delta is composed after what is there, and one whose
\* composition fails at that moment is skipped
RECURSIVE Composed(_, _)
Composed(t, ds) ==
    IF ds = <<>> THEN t
    ELSE LET m == MatMul(Head(ds), t)
         IN Composed(IF IsFinite(m) /\ Det(m) # 0 THEN m ELSE t, Tail(ds))

\* C10: after any sequence of transform calls on a geometric shader the
\* variant and the rest of the payload are as constructed, and the transform
\* is the initial one composed, in call order, with the deltas that
\* succeeded when they were applied.
C10_TransformHistory ==
    IsGeometric(shader0)
        => /\ shader.kind = shader0.kind
           /\ shader.transform = Composed(shader0.transform, log)
           /\ shader = [shader0 EXCEPT !.transform = Composed(shader0.transform, log)]

\* three calls: the first applied, the second dropped, the third applied
C10_Witness ==
    /\ IsGeometric(shader0)
    /\ Len(log) = 3
    /\ Composed(shader0.transform, SubSeq(log, 1, 1)) # shader0.transform
    /\ Composed(shader0.transform, SubSeq(log, 1, 2))
          = Composed(shader0.transform, SubSeq(log, 1, 1))
    /\ shader.transform # Composed(shader0.transform, SubSeq(log, 1, 2))
    /\ shader.transform = Composed(shader0.transform, log)

====
